---- MODULE Spec2Model ----
(***************************************************************************)
(* StateSelector of ngxs-synchronizers: require/sync of state properties   *)
(* through Synchronizers, with the pendingRequests$ dictionary that shares *)
(* one in-flight request per property.                                     *)
(*                                                                         *)
(* One JavaScript turn is one step: everything an RxJS subscription does   *)
(* synchronously (dictionary lookup, building and installing a request,    *)
(* resolving its required properties, the call to read) happens inside the *)
(* action that starts it.  The only asynchronous event is the settlement   *)
(* of a Synchronizer's read.                                               *)
(***************************************************************************)
EXTENDS Integers, Sequences, FiniteSets, TLC

\* ------------------------------------------------------------------ bounds
MaxCalls == 2       \* top-level require/sync calls issued in one behaviour
MaxHandles == 3     \* requests (shareReplay'd observables) built in one behaviour

\* ------------------------------------------------------- the state's shape
Props == {"name", "email", "avatar", "profile", "contact", "loop", "ploop"}

Undef == -1                 \* the value `undefined` of an unsynced property
Values == {0, 1}            \* concrete values; 0 is a falsy one (0, "", false)
NoState == [p \in Props |-> -2]   \* "no state delivered (yet)"
None == 0                   \* no request / no entry in the dictionary

\* if (state[propertyName]) : JavaScript truthiness
Truthy(v) == v # Undef /\ v # 0

\* ---------------------------------------------------------------- errors
\* An error is the set of the failures it carries (the aggregate message is
\* the join of its members' messages).
ConfigError(P) == {<<"self-reference", P>>}
ReadError(P) == {<<"read failed", P>>}

\* --------------------------------------------- outcome of one subscription
\* t: "ok" (a state was emitted), "err", "wait" (nothing yet), or "empty"
\* (completed without a value); h: the request it came from, None when it
\* came from no request (of(state), throwError).
Member(t, h, e) == [t |-> t, h |-> h, e |-> e, l |-> FALSE]
Ok == Member("ok", None, {})
Err(e) == Member("err", None, e)

Settled(ms) == \A i \in DOMAIN ms : ms[i].t # "wait"
HasError(ms) == \E i \in DOMAIN ms : ms[i].t = "err"
Errors(ms) == UNION {ms[i].e : i \in {j \in DOMAIN ms : ms[j].t = "err"}}

\* forkJoin(members).pipe(mergeMap(() => errors.length === 0 ? state : throw)):
\* nothing until every member completed; no value at all for no members or
\* for a member that completed without one.
ForkJoin(ms) ==
    IF ms = << >> \/ \E i \in DOMAIN ms : ms[i].t = "empty" THEN "empty"
    ELSE IF ~Settled(ms) THEN "wait"
    ELSE IF HasError(ms) THEN "error"
    ELSE "value"

VARIABLES
    store,        \* the state object: property -> value or Undef
    pending,      \* pendingRequests$ : property -> request id or None
    handles,      \* every request built so far, by id
    calls,        \* every top-level call made so far
    readCount,    \* property -> number of invocations of its synchronizer.read
    syncing,      \* property K -> what isSyncingProperty(K) has emitted so far
    synchronizers \* the Synchronizer collection given to the constructor

vars == <<store, pending, handles, calls, readCount, syncing, synchronizers>>

\* ---------------------------------------------- the Synchronizer collection
Synchronizer(proxy, required) == [proxy |-> proxy, requiredProperties |-> required]

\* The collections a StateSelector is constructed with here: two independent
\* properties; a proxy over "name"; a synchronizer that requires "name"; one
\* that requires "name" and "email"; and two synchronizers that require
\* themselves, one of them a proxy.
Collections ==
    { [p \in {"name", "email"} |-> Synchronizer(FALSE, << >>)],
      [p \in {"name", "avatar"} |->
          IF p = "avatar" THEN Synchronizer(TRUE, <<"name">>)
          ELSE Synchronizer(FALSE, << >>)],
      [p \in {"name", "profile"} |->
          IF p = "profile" THEN Synchronizer(FALSE, <<"name">>)
          ELSE Synchronizer(FALSE, << >>)],
      [p \in {"name", "email", "contact"} |->
          IF p = "contact" THEN Synchronizer(FALSE, <<"name", "email">>)
          ELSE Synchronizer(FALSE, << >>)],
      [p \in {"loop", "ploop"} |->
          Synchronizer(p = "ploop", <<p>>)] }

\* this.synchronizers.getSynchronizer(propertyName)
GetSynchronizer(P) == synchronizers[P]

\* synchronizer.proxy
Proxy(P) == GetSynchronizer(P).proxy

\* synchronizer.requiredProperties
Required(P) == GetSynchronizer(P).requiredProperties

\* The part of the state the synchronous machinery works on.
World == [store |-> store, pending |-> pending, handles |-> handles,
          readCount |-> readCount, syncing |-> syncing, ovf |-> FALSE]

NewRequest(P, cs) ==
    [prop |-> P, cs |-> cs, phase |-> "deps", m |-> << >>, reads |-> 0,
     value |-> Undef, result |-> NoState, err |-> {},
     stRead |-> NoState, stBefore |-> NoState, stAfter |-> NoState]

\* ------------------------------------------------------------- dispatch
\* store.dispatch(new updateAction(propertyName, value)): the store replaces
\* the one field when dispatch is called, and state$ shows the new state
\* before the observable that dispatch returns emits.
Dispatch(w, P, v) == [w EXCEPT !.store[P] = v]

\* ------------------------------------------------- isSyncingProperty
\* Variant without distinctUntilChanged.
IsSyncingEmitEvery(emitted, b) == Append(emitted, b)

\* getPropertyUpdater(K).pipe(map(Boolean), distinctUntilChanged()): what a
\* subscriber has received once the dictionary emits an entry that is
\* there (b) or not.
IsSyncingEmit(emitted, b) ==
    IF emitted # << >> /\ emitted[Len(emitted)] = b THEN emitted
    ELSE Append(emitted, b)

\* this.pendingRequests$.next(Object.assign(pendingRequests, {[P]: e})): the
\* dictionary changes and is emitted to the subscribers of every
\* isSyncingProperty(K).
PendingNext(w, P, e) ==
    LET pd == [w.pending EXCEPT ![P] = e]
    IN [w EXCEPT !.pending = pd,
                 !.syncing = [K \in Props |->
                                 IsSyncingEmit(w.syncing[K], pd[K] # None)]]

\* ----------------------------------------------- clearPropertyUpdater
\* Variant without the test that the entry is still this request.
ClearPropertyUpdaterAlways(w, P, h) == PendingNext(w, P, None)

\* Variant that never removes the entry.
ClearPropertyUpdaterNever(w, P, h) == w

\* filter(pendingRequests => pendingRequests[propertyName] === request)
ClearPropertyUpdater(w, P, h) ==
    IF w.pending[P] = h THEN PendingNext(w, P, None) ELSE w

\* --------------------------------------------------------------- syncOne
\* The eager part of syncOne, run when sync() is called.
ClearOnCall(w, P, cs) ==
    IF ~Proxy(P) /\ cs THEN Dispatch(w, P, Undef) ELSE w

SelfReference(P) ==
    ~Proxy(P) /\ \E i \in DOMAIN Required(P) : Required(P)[i] = P

\* Variants of the dictionary test: never reusing the request in flight, and
\* reusing it whatever the options say.
UseExistingNever(w, P, cs) == FALSE
UseExistingIgnoringClearStore(w, P, cs) == w.pending[P] # None

\* if (pendingRequest$ && !options.clearStore)
UseExisting(w, P, cs) == w.pending[P] # None /\ ~cs

\* Subscribing to request h (shareReplay): what it replays, or a wait.
\* l: the dictionary still holds h for its property when h's outcome is
\* handed to the subscriber.
Join(w, h) ==
    LET l == w.pending[w.handles[h].prop] = h
    IN CASE w.handles[h].phase = "done" -> [Member("ok", h, {}) EXCEPT !.l = l]
         [] w.handles[h].phase = "failed" ->
               [Member("err", h, w.handles[h].err) EXCEPT !.l = l]
         [] w.handles[h].phase = "empty" -> [Member("empty", h, {}) EXCEPT !.l = l]
         [] OTHER -> Member("wait", h, {})

\* synchronizer.read(requiredDetails, {propertyName, ...options}) is called;
\* requiredDetails (stRead) is the state taken when the required properties
\* have answered.
InvokeRead(w, h) ==
    [w EXCEPT !.handles[h].phase = "reading",
              !.handles[h].stRead = w.store,
              !.handles[h].reads = @ + 1,
              !.readCount[w.handles[h].prop] = @ + 1]

\* Variant of the failure path that also resets the property in the store.
FailRequestClearingStore(w, h, e) ==
    LET w0 == [w EXCEPT !.store[w.handles[h].prop] = Undef]
        w1 == IF w0.pending[w.handles[h].prop] = h
              THEN [w0 EXCEPT !.pending[w.handles[h].prop] = None] ELSE w0
    IN [w1 EXCEPT !.handles[h].phase = "failed", !.handles[h].err = e,
                  !.handles[h].stBefore = w.store,
                  !.handles[h].stAfter = w1.store]

\* Variant of the failure path without clearPropertyUpdater.
FailRequestKeepingEntry(w, h, e) ==
    [w EXCEPT !.handles[h].phase = "failed", !.handles[h].err = e,
              !.handles[h].stBefore = w.store,
              !.handles[h].stAfter = w.store]

\* catchError: the entry is removed and the error rethrown to the waiters.
FailRequest(w, h, e) ==
    LET w1 == ClearPropertyUpdater(w, w.handles[h].prop, h)
    IN [w1 EXCEPT !.handles[h].phase = "failed", !.handles[h].err = e,
                  !.handles[h].stBefore = w.store,
                  !.handles[h].stAfter = w1.store]

\* Variant that delivers the state captured before the dispatch.
DeliveredStateCapturedEarly(before, after) == before

\* mergeMap(() => this.state$.pipe(take(1))) after the dispatch: the state
\* a request that succeeded delivers.
DeliveredState(before, after) == after

\* Variant of the success path without tap(clearPropertyUpdater).
SucceedRequestKeepingEntry(w, h, v) ==
    LET w1 == Dispatch(w, w.handles[h].prop, v)
    IN [w1 EXCEPT !.handles[h].phase = "done",
                  !.handles[h].value = v,
                  !.handles[h].result = DeliveredState(w.store, w1.store),
                  !.handles[h].stBefore = w.store,
                  !.handles[h].stAfter = w1.store]

\* read emitted v: dispatch, remove the entry, take the state.
SucceedRequest(w, h, v) ==
    LET P == w.handles[h].prop
        w1 == Dispatch(w, P, v)
        w2 == ClearPropertyUpdater(w1, P, h)
    IN [w2 EXCEPT !.handles[h].phase = "done",
                  !.handles[h].value = v,
                  !.handles[h].result = DeliveredState(w.store, w2.store),
                  !.handles[h].stBefore = w.store,
                  !.handles[h].stAfter = w2.store]

\* What a new request does once its required properties answered: call read,
\* fail, keep waiting, or complete without ever emitting.
AfterRequired(w, h, ms, short) ==
    LET w1 == [w EXCEPT !.handles[h].m = ms]
        fj == IF short THEN "value" ELSE ForkJoin(ms)
    IN CASE fj = "wait" -> w1
         [] fj = "error" -> FailRequest(w1, h, Errors(ms))
         [] fj = "value" -> InvokeRead(w1, h)
         [] OTHER -> [w1 EXCEPT !.handles[h].phase = "empty"]

\* Variant that resolves a proxy's required properties through require.
RequiredBySyncNever(P) == FALSE

\* if (synchronizer.proxy) syncAll(requiredProperties, options)
\* else requireAll(requiredProperties || [])
RequiredBySync(P) == Proxy(P)

\* Variant without the short cut for the empty array.
EmptySetNever(ps) == FALSE

\* if (propertyNames.length === 0) return this.state$.pipe(take(1))
EmptySet(ps) == ps = << >>

RECURSIVE SyncOneSub(_, _, _), NewHandle(_, _, _), SubscribeAll(_, _, _, _)

\* One member of a set: requireOne, or the subscription of a syncOne.
SubscribeOne(w, P, cs, mode) ==
    IF mode = "require"
    THEN IF Truthy(w.store[P])
         THEN [w |-> w, out |-> Ok]
         ELSE SyncOneSub(ClearOnCall(w, P, cs), P, cs)
    ELSE SyncOneSub(w, P, cs)

\* forkJoin subscribes to its members in order.
SubscribeAll(w, ps, cs, mode) ==
    IF ps = << >> THEN [w |-> w, ms |-> << >>]
    ELSE LET r == SubscribeOne(w, Head(ps), cs, mode)
             rest == SubscribeAll(r.w, Tail(ps), cs, mode)
         IN [w |-> rest.w, ms |-> <<r.out>> \o rest.ms]

RECURSIVE ClearAllOnCall(_, _, _)
ClearAllOnCall(w, ps, cs) ==
    IF ps = << >> THEN w
    ELSE ClearAllOnCall(ClearOnCall(w, Head(ps), cs), Tail(ps), cs)

\* syncAll: sync(name, options) is called for every name (its eager part
\* runs), then forkJoin subscribes.  short: the empty array's short cut.
SyncAll(w, ps, cs) ==
    IF EmptySet(ps) THEN [w |-> w, ms |-> << >>, short |-> TRUE]
    ELSE LET r == SubscribeAll(ClearAllOnCall(w, ps, cs), ps, cs, "sync")
         IN [w |-> r.w, ms |-> r.ms, short |-> FALSE]

\* requireAll: every requireOne is lazy.
RequireAll(w, ps, cs) ==
    IF EmptySet(ps) THEN [w |-> w, ms |-> << >>, short |-> TRUE]
    ELSE LET r == SubscribeAll(w, ps, cs, "require")
         IN [w |-> r.w, ms |-> r.ms, short |-> FALSE]

\* this.pendingRequests$.next(Object.assign(pendingRequests,
\*                                          {[propertyName]: pendingRequest$}))
Install(w, P, h) == PendingNext(w, P, h)

\* The else branch of syncOne's mergeMap: build the request, install it,
\* return it (mergeMap then subscribes to it, which resolves the required
\* properties and, when they are there, calls read).
NewHandle(w, P, cs) ==
    IF w.ovf \/ Len(w.handles) >= MaxHandles
    THEN [w |-> [w EXCEPT !.ovf = TRUE], out |-> Ok]
    ELSE LET h == Len(w.handles) + 1
             w1 == Install([w EXCEPT !.handles = Append(@, NewRequest(P, cs))], P, h)
             d == IF RequiredBySync(P)
                  THEN SyncAll(w1, Required(P), cs)
                  ELSE RequireAll(w1, Required(P), FALSE)
             w2 == AfterRequired(d.w, h, d.ms, d.short)
         IN [w |-> w2, out |-> Join(w2, h)]

\* Subscription of the observable syncOne returns.
SyncOneSub(w, P, cs) ==
    IF SelfReference(P) THEN [w |-> w, out |-> Err(ConfigError(P))]
    ELSE IF UseExisting(w, P, cs) THEN [w |-> w, out |-> Join(w, w.pending[P])]
    ELSE NewHandle(w, P, cs)

\* sync(P, options).subscribe()
SyncOne(w, P, cs) == SyncOneSub(ClearOnCall(w, P, cs), P, cs)

\* require(P, options).subscribe()
RequireOne(w, P, cs) == SubscribeOne(w, P, cs, "require")

\* --------------------------------------------------- settlement of a request
\* The members that wait on request h receive its outcome.
Resolve(ms, h, out) ==
    [i \in DOMAIN ms |-> IF ms[i].t = "wait" /\ ms[i].h = h THEN out ELSE ms[i]]

WaitsOn(ms, h) == \E i \in DOMAIN ms : ms[i].t = "wait" /\ ms[i].h = h

\* Variant that fails as soon as one member has failed.
AggregateFailFast(c, ms, short, st) ==
    IF ~short /\ HasError(ms)
    THEN [c EXCEPT !.m = ms, !.status = "error", !.err = Errors(ms)]
    ELSE IF short \/ (ms # << >> /\ Settled(ms))
    THEN [c EXCEPT !.m = ms, !.status = "done", !.result = st]
    ELSE [c EXCEPT !.m = ms]

\* requireAll/syncAll seen by their caller: the state once every member
\* completed, or the joined errors.
Aggregate(c, ms, short, st) ==
    LET fj == IF short THEN "value" ELSE ForkJoin(ms)
    IN CASE fj = "wait" -> [c EXCEPT !.m = ms]
         [] fj = "error" -> [c EXCEPT !.m = ms, !.status = "error", !.err = Errors(ms)]
         [] fj = "value" -> [c EXCEPT !.m = ms, !.status = "done", !.result = st]
         [] OTHER -> [c EXCEPT !.m = ms, !.status = "empty"]

\* require(P)/sync(P) seen by their caller: what of(state) or the request
\* emits.
Deliver(c, out, w) ==
    CASE out.t = "wait" -> [c EXCEPT !.m = <<out>>]
      [] out.t = "err" -> [c EXCEPT !.m = <<out>>, !.status = "error", !.err = out.e]
      [] out.t = "ok" ->
            [c EXCEPT !.m = <<out>>, !.status = "done",
                      !.result = IF out.h = None THEN w.store
                                 ELSE w.handles[out.h].result]
      [] OTHER -> [c EXCEPT !.m = <<out>>, !.status = "empty"]

NotifyCall(c, w, h, out) ==
    IF c.status # "pending" \/ ~WaitsOn(c.m, h) THEN c
    ELSE IF c.isSet THEN Aggregate(c, Resolve(c.m, h, out), FALSE, w.store)
    ELSE Deliver(c, out, w)

\* The requests whose required properties wait on h, in the order built.
RECURSIVE NotifyHandles(_, _, _, _)
NotifyHandles(w, h, out, g) ==
    IF g > Len(w.handles) THEN [w |-> w, failed |-> << >>]
    ELSE IF w.handles[g].phase = "deps" /\ WaitsOn(w.handles[g].m, h)
    THEN LET w1 == AfterRequired(w, g, Resolve(w.handles[g].m, h, out), FALSE)
             rest == NotifyHandles(w1, h, out, g + 1)
         IN [w |-> rest.w,
             failed |-> IF w1.handles[g].phase = "failed"
                        THEN <<g>> \o rest.failed ELSE rest.failed]
    ELSE NotifyHandles(w, h, out, g + 1)

\* Everything that happens synchronously once the requests in todo settled.
RECURSIVE Propagate(_, _, _)
Propagate(w, cs, todo) ==
    IF todo = << >> THEN [w |-> w, calls |-> cs]
    ELSE LET h == Head(todo)
             out == Join(w, h)
             cs1 == [i \in DOMAIN cs |-> NotifyCall(cs[i], w, h, out)]
             r == NotifyHandles(w, h, out, 1)
         IN Propagate(r.w, cs1, Tail(todo) \o r.failed)

\* ------------------------------------------------------------------- Init
\* The defaults of the state class: nothing synced; or "loop" (which
\* nothing can sync) already there; beside "contact", "name" already there.
Defaults ==
    IF "contact" \in DOMAIN synchronizers
    THEN {[p \in Props |-> IF p = "name" THEN 1 ELSE Undef]}
    ELSE {[p \in Props |-> Undef]} \cup
         (IF "loop" \in DOMAIN synchronizers
          THEN {[p \in Props |-> IF p = "loop" THEN 1 ELSE Undef]} ELSE {})

Init ==
    /\ synchronizers \in Collections
    /\ store \in Defaults
    /\ pending = [p \in Props |-> None]
    /\ handles = << >>
    /\ calls = << >>
    /\ readCount = [p \in Props |-> 0]
    /\ syncing = [p \in Props |-> <<FALSE>>]

Commit(w, cs) ==
    /\ store' = w.store
    /\ pending' = w.pending
    /\ handles' = w.handles
    /\ readCount' = w.readCount
    /\ syncing' = w.syncing
    /\ calls' = cs
    /\ UNCHANGED synchronizers

\* The properties callers ask for: the registered ones; beside "contact",
\* "email" is asked for only as the property contact requires.
Callable ==
    IF "contact" \in DOMAIN synchronizers THEN {"name", "contact"}
    ELSE DOMAIN synchronizers

\* The arrays given to require([...]) and sync([...]).
SetArgs ==
    IF DOMAIN synchronizers = {"name", "email"}
    THEN {<< >>, <<"name", "email">>} ELSE {}

\* A call as its caller sees it, with what it found (before) and what it
\* left (after) for the properties below.
Snapshot(w) == [st |-> w.store, pd |-> w.pending, rc |-> w.readCount,
                nh |-> Len(w.handles),
                fl |-> {h \in DOMAIN w.handles : w.handles[h].phase = "failed"}]

NewCall(op, isSet, ps, cs, w) ==
    [op |-> op, isSet |-> isSet, props |-> ps, cs |-> cs,
     status |-> "pending", m |-> << >>, result |-> NoState, err |-> {},
     before |-> Snapshot(World), after |-> Snapshot(w)]

\* ---------------------------------------------------------------- actions
\* require(P, options) / sync(P, options), subscribed by the caller.
CallOne(op, P, cs) ==
    /\ Len(calls) < MaxCalls
    /\ LET r == IF op = "sync" THEN SyncOne(World, P, cs) ELSE RequireOne(World, P, cs)
       IN /\ ~r.w.ovf
          /\ Commit(r.w, Append(calls, Deliver(NewCall(op, FALSE, <<P>>, cs, r.w), r.out, r.w)))

\* require([...], options) / sync([...], options), subscribed by the caller.
CallAll(op, ps, cs) ==
    /\ Len(calls) < MaxCalls
    /\ LET r == IF op = "sync" THEN SyncAll(World, ps, cs) ELSE RequireAll(World, ps, cs)
       IN /\ ~r.w.ovf
          /\ Commit(r.w, Append(calls, Aggregate(NewCall(op, TRUE, ps, cs, r.w),
                                                r.ms, r.short, r.w.store)))

\* A Synchronizer's read emits value v and completes.
ReadSucceeds(h, v) ==
    /\ handles[h].phase = "reading"
    /\ LET r == Propagate(SucceedRequest(World, h, v), calls, <<h>>)
       IN Commit(r.w, r.calls)

\* A Synchronizer's read fails.
ReadFails(h) ==
    /\ handles[h].phase = "reading"
    /\ LET r == Propagate(FailRequest(World, h, ReadError(handles[h].prop)), calls, <<h>>)
       IN Commit(r.w, r.calls)

Next ==
    \/ \E op \in {"sync", "require"}, P \in Callable, cs \in BOOLEAN :
          CallOne(op, P, cs)
    \/ \E op \in {"sync", "require"}, ps \in SetArgs : CallAll(op, ps, FALSE)
    \/ \E h \in DOMAIN handles, v \in Values : ReadSucceeds(h, v)
    \/ \E h \in DOMAIN handles : ReadFails(h)

Spec == Init /\ [][Next]_vars

\* A read that was invoked settles: it emits a value and completes, or fails.
ReadSettles ==
    \E h \in DOMAIN handles : (\E v \in Values : ReadSucceeds(h, v)) \/ ReadFails(h)

\* ReadSettles can be taken (it is enabled) exactly when a read is in flight,
\* and a step is a ReadSettles step exactly when a read in flight is over
\* after it.
ReadInFlight == \E h \in DOMAIN handles : handles[h].phase = "reading"
ReadSettled ==
    \E h \in DOMAIN handles : handles[h].phase = "reading" /\ handles'[h].phase # "reading"

\* The behaviours in which every Synchronizer's read eventually settles: weak
\* fairness of ReadSettles, WF_vars(ReadSettles), written out as
\* []<>(not enabled) \/ []<>(taken).
FairSpec == Spec /\ ([]<>~ReadInFlight \/ []<><<ReadSettled>>_vars)

\* ReadSettled describes the steps of ReadSettles, and no others.
ReadSettledIsReadSettles == [][ReadSettled <=> ReadSettles]_vars

\* ======================================================== the properties
SingleCall(c, op) == ~c.isSet /\ c.op = op
PropOf(c) == c.props[1]
\* The request a call of require(P)/sync(P) is subscribed to (None: none).
HandleOf(c) == c.m[1].h
\* The requests a call built.
Built(c) == c.after.nh - c.before.nh
\* The invocations of read made while the call was being issued.
ReadsDuring(c, P) == c.after.rc[P] - c.before.rc[P]
NoEffect(c) ==
    /\ c.after.st = c.before.st
    /\ c.after.pd = c.before.pd
    /\ c.after.rc = c.before.rc
    /\ Built(c) = 0

\* C1: a sync(P) without clearStore that is issued while the request of an
\* earlier sync(P) without clearStore is in the dictionary (in flight) joins
\* that request: it builds none and invokes no read, the one request
\* invokes read at most once, and both callers get the same outcome of it.
C1_ConcurrentSyncShares ==
    \A i, j \in DOMAIN calls :
        ( /\ i < j
          /\ SingleCall(calls[i], "sync") /\ SingleCall(calls[j], "sync")
          /\ ~calls[i].cs /\ ~calls[j].cs
          /\ PropOf(calls[i]) = PropOf(calls[j])
          /\ HandleOf(calls[i]) # None
          /\ calls[j].before.pd[PropOf(calls[j])] = HandleOf(calls[i]) )
        => /\ HandleOf(calls[j]) = HandleOf(calls[i])
           /\ Built(calls[j]) = 0
           /\ ReadsDuring(calls[j], PropOf(calls[j])) = 0
           /\ handles[HandleOf(calls[i])].reads <= 1
           /\ calls[j].status = calls[i].status
           /\ calls[j].result = calls[i].result
           /\ calls[j].err = calls[i].err

\* Two concurrent sync("name") calls have both completed from one request
\* whose read ran once.
C1_Witness ==
    \E i, j \in DOMAIN calls :
        /\ i < j
        /\ SingleCall(calls[i], "sync") /\ SingleCall(calls[j], "sync")
        /\ ~calls[i].cs /\ ~calls[j].cs
        /\ PropOf(calls[i]) = "name" /\ PropOf(calls[j]) = "name"
        /\ calls[j].before.pd["name"] = HandleOf(calls[i])
        /\ HandleOf(calls[i]) # None
        /\ calls[i].status = "done" /\ calls[j].status = "done"
        /\ readCount["name"] = 1

\* C2 (as claimed): a require(P) without clearStore that finds any concrete
\* (non-undefined) value of P in the store completes at once with the
\* current state, invokes no read and adds nothing to the dictionary.
C2_RequirePresentValue ==
    \A i \in DOMAIN calls :
        ( /\ SingleCall(calls[i], "require") /\ ~calls[i].cs
          /\ calls[i].before.st[PropOf(calls[i])] # Undef )
        => /\ calls[i].status = "done"
           /\ calls[i].result = calls[i].before.st
           /\ NoEffect(calls[i])

\* C3 (as claimed): require(P, options) completes from the store, without
\* sync, only when P is present and options.clearStore is false.
Delegated(c) == c.m[1].h # None \/ c.m[1].t = "err"
C3_RequireDelegatesOnClearStore ==
    \A i \in DOMAIN calls :
        ( SingleCall(calls[i], "require") /\ ~Delegated(calls[i]) )
        => /\ calls[i].before.st[PropOf(calls[i])] # Undef
           /\ ~calls[i].cs

\* C4 (as claimed): every sync(P)/require(P) of a property whose
\* synchronizer requires P itself, proxy or not, fails with the
\* configuration error and invokes no read.
RequiresItself(P) == \E k \in DOMAIN Required(P) : Required(P)[k] = P
C4_SelfReferenceFails ==
    \A i \in DOMAIN calls :
        ( ~calls[i].isSet /\ RequiresItself(PropOf(calls[i])) )
        => /\ calls[i].status = "error"
           /\ calls[i].err = ConfigError(PropOf(calls[i]))
           /\ readCount[PropOf(calls[i])] = 0
           /\ Built(calls[i]) = 0

\* C5: every request built for a proxy property resolves each of its
\* required properties through sync: each is answered by a request for that
\* property (built or joined), never from the store, whatever the store
\* holds.
C5_ProxyResyncsRequired ==
    \A h \in DOMAIN handles :
        Proxy(handles[h].prop) =>
            /\ Len(handles[h].m) = Len(Required(handles[h].prop))
            /\ \A k \in DOMAIN handles[h].m :
                  /\ handles[h].m[k].h # None
                  /\ handles[handles[h].m[k].h].prop = Required(handles[h].prop)[k]

\* sync("avatar") was called with "name" already in the store, and its
\* request is answered by a request for "name" built by that call.
C5_Witness ==
    \E i \in DOMAIN calls :
        /\ SingleCall(calls[i], "sync") /\ PropOf(calls[i]) = "avatar"
        /\ Truthy(calls[i].before.st["name"])
        /\ HandleOf(calls[i]) # None
        /\ handles[HandleOf(calls[i])].m[1].h > calls[i].before.nh
        /\ ReadsDuring(calls[i], "name") = 1

\* C6: require([]) and sync([]) complete with the store as it is, invoke no
\* read, build no request and change neither the store nor the dictionary.
C6_EmptySetIsNoOp ==
    \A i \in DOMAIN calls :
        ( calls[i].isSet /\ calls[i].props = << >> )
        => /\ calls[i].status = "done"
           /\ calls[i].result = calls[i].before.st
           /\ NoEffect(calls[i])

\* sync([]) was called while a request was in flight.
C6_Witness ==
    \E i \in DOMAIN calls :
        /\ calls[i].isSet /\ calls[i].props = << >> /\ calls[i].op = "sync"
        /\ calls[i].status = "done"
        /\ \E p \in Props : calls[i].before.pd[p] # None

\* C7: a sync(P, {clearStore: true}) issued while a request for P is in the
\* dictionary does not join it: it builds a request of its own, which takes
\* P's place in the dictionary, and read is invoked for that new request
\* (at once when P requires nothing, else once what it requires is there).
C7_ClearStoreBuildsFresh ==
    \A i \in DOMAIN calls :
        LET c == calls[i]
            P == PropOf(c)
        IN ( /\ SingleCall(c, "sync") /\ c.cs
             /\ ~SelfReference(P)
             /\ c.before.pd[P] # None )
           => /\ HandleOf(c) # c.before.pd[P]
              /\ HandleOf(c) > c.before.nh
              /\ handles[HandleOf(c)].prop = P
              /\ c.after.pd[P] = HandleOf(c)
              /\ (Required(P) = << >> => ReadsDuring(c, P) = 1)
              /\ (handles[HandleOf(c)].phase \in {"reading", "done"}
                    => handles[HandleOf(c)].reads = 1)

\* sync("name", {clearStore: true}) replaced a request in flight, and both
\* requests have had their read invoked.
C7_Witness ==
    \E i \in DOMAIN calls :
        /\ SingleCall(calls[i], "sync") /\ calls[i].cs
        /\ PropOf(calls[i]) = "name"
        /\ calls[i].before.pd["name"] # None
        /\ handles[calls[i].before.pd["name"]].phase = "reading"
        /\ handles[HandleOf(calls[i])].phase = "reading"
        /\ readCount["name"] = 2

\* C8: a require([...])/sync([...]) fails only once every member has
\* settled, with an error that carries the failure of every failed member,
\* and the step in which it fails undoes no write: the store changes there
\* only by the value a request that succeeds in that step writes.
FailsNow(i) ==
    /\ i \in DOMAIN calls'
    /\ calls'[i].isSet /\ calls'[i].status = "error"
    /\ i \in DOMAIN calls => calls[i].status = "pending"
C8_SetFailureKeepsSiblings ==
    [][ \A i \in 1..MaxCalls :
          FailsNow(i) =>
            /\ Settled(calls'[i].m)
            /\ calls'[i].err = Errors(calls'[i].m)
            /\ \A k \in DOMAIN calls'[i].m :
                  calls'[i].m[k].t = "err" => calls'[i].m[k].e \subseteq calls'[i].err
            /\ i \in DOMAIN calls =>
                  \A p \in Props :
                     \/ store'[p] = store[p]
                     \/ \E h \in DOMAIN handles :
                           /\ handles[h].phase = "reading" /\ handles'[h].phase = "done"
                           /\ handles[h].prop = p
                           /\ store'[p] = handles'[h].value ]_vars

\* require(["name", "email"]) failed with email's read error after name's
\* request succeeded, and name's value is still in the store.
C8_Witness ==
    \E i \in DOMAIN calls :
        /\ calls[i].isSet /\ calls[i].status = "error"
        /\ calls[i].props = <<"name", "email">>
        /\ calls[i].m[1].t = "ok" /\ calls[i].m[1].h # None
        /\ calls[i].m[2].t = "err"
        /\ calls[i].err = ReadError("email")
        /\ Truthy(store["name"])
        /\ store["name"] = handles[calls[i].m[1].h].value

\* C9: when a request's read fails, every subscriber of the request (the
\* callers, the sets and the requests that wait on it) gets the error, the
\* failure writes nothing to the store, and read is invoked only that once
\* for the request.
ReadFailed(h) ==
    handles[h].phase = "failed" /\ handles[h].err = ReadError(handles[h].prop)
C9_ReadFailureReachesWaiters ==
    \A h \in DOMAIN handles :
        /\ handles[h].reads <= 1
        /\ ReadFailed(h) =>
            /\ handles[h].reads = 1
            /\ handles[h].stAfter = handles[h].stBefore
            /\ \A i \in DOMAIN calls : \A k \in DOMAIN calls[i].m :
                  calls[i].m[k].h = h =>
                    /\ calls[i].m[k].t = "err"
                    /\ handles[h].err \subseteq calls[i].m[k].e
                    /\ calls[i].status = "error" => handles[h].err \subseteq calls[i].err
                    /\ ~calls[i].isSet => calls[i].status = "error"
            /\ \A g \in DOMAIN handles : \A k \in DOMAIN handles[g].m :
                  handles[g].m[k].h = h => handles[g].m[k].t = "err"

\* Two callers shared a request for "name" whose read failed while the
\* store held an earlier value of "name".
C9_Witness ==
    \E h \in DOMAIN handles :
        /\ ReadFailed(h) /\ handles[h].prop = "name"
        /\ \E i, j \in DOMAIN calls :
              /\ i # j
              /\ ~calls[i].isSet /\ ~calls[j].isSet
              /\ HandleOf(calls[i]) = h /\ HandleOf(calls[j]) = h
              /\ calls[i].status = "error" /\ calls[j].status = "error"

\* C10: every caller of sync(P) that completes with a state, whether it
\* built the request or joined it, is given the state taken after that
\* request's write of P: it holds the value the request's read produced.
C10_DeliveredAfterWrite ==
    \A i \in DOMAIN calls :
        LET c == calls[i]
        IN ( SingleCall(c, "sync") /\ c.status = "done" )
           => /\ HandleOf(c) # None
              /\ handles[HandleOf(c)].phase = "done"
              /\ c.result = handles[HandleOf(c)].stAfter
              /\ c.result[PropOf(c)] = handles[HandleOf(c)].value

\* A caller that built the request and one that joined it were both given
\* the state with the new value, which differs from the one before.
C10_Witness ==
    \E i, j \in DOMAIN calls :
        /\ i < j
        /\ SingleCall(calls[i], "sync") /\ SingleCall(calls[j], "sync")
        /\ HandleOf(calls[i]) # None
        /\ HandleOf(calls[j]) = HandleOf(calls[i])
        /\ Built(calls[j]) = 0
        /\ calls[i].status = "done" /\ calls[j].status = "done"
        /\ calls[j].result[PropOf(calls[j])] = handles[HandleOf(calls[j])].value
        /\ handles[HandleOf(calls[j])].stBefore[PropOf(calls[j])]
              # handles[HandleOf(calls[j])].value

\* C11: isSyncingProperty(K) reports, as the last value it emitted, whether
\* the dictionary holds an entry for K, and never emits the same value
\* twice in a row.
C11_IsSyncingTracksDictionary ==
    \A K \in Props :
        /\ syncing[K][Len(syncing[K])] = (pending[K] # None)
        /\ \A n \in 1..(Len(syncing[K]) - 1) : syncing[K][n] # syncing[K][n + 1]

\* isSyncingProperty("name") went false, true, false, true while
\* isSyncingProperty("email") saw the same emissions of the dictionary and
\* reported only its own change.
C11_Witness ==
    /\ syncing["name"] = <<FALSE, TRUE, FALSE, TRUE>>
    /\ syncing["email"] = <<FALSE, TRUE>>
    /\ pending["name"] # None /\ pending["email"] # None

\* C12: the request installed last for P owns P's entry for as long as it
\* is unsettled: the entry is that request whatever older requests for P do
\* (their removal on settling is a no-op), and there is no entry once it
\* has settled.
RequestsFor(P) == {h \in DOMAIN handles : handles[h].prop = P}
LastInstalled(P) == CHOOSE h \in RequestsFor(P) : \A g \in RequestsFor(P) : g <= h
Unsettled(h) == handles[h].phase \in {"deps", "reading"}
C12_LastInstalledOwnsEntry ==
    \A P \in Props :
        IF RequestsFor(P) = {} THEN pending[P] = None
        ELSE pending[P] = IF Unsettled(LastInstalled(P)) THEN LastInstalled(P) ELSE None

\* A request replaced by a clearStore request has settled and the entry is
\* still the newer request, which is unsettled.
C12_Witness ==
    \E P \in Props : \E h, g \in RequestsFor(P) :
        /\ h < g /\ g = LastInstalled(P)
        /\ handles[g].cs
        /\ ~Unsettled(h) /\ Unsettled(g)
        /\ pending[P] = g

\* C13: a request that settled, by success or by failure, is no longer the
\* entry of its property, and whoever received its outcome received it
\* after the entry was removed: no outcome of a request was handed over
\* while the dictionary still held that request.
C13_EntryRemovedBeforeOutcome ==
    /\ \A h \in DOMAIN handles :
          handles[h].phase \in {"done", "failed"} => pending[handles[h].prop] # h
    /\ \A i \in DOMAIN calls : \A n \in DOMAIN calls[i].m :
          calls[i].m[n].t # "wait" => ~calls[i].m[n].l
    /\ \A g \in DOMAIN handles : \A n \in DOMAIN handles[g].m :
          handles[g].m[n].t # "wait" => ~handles[g].m[n].l

\* One caller that waited on a request received its value and another that
\* waited on a request received its error.
C13_Witness ==
    \E i, j \in DOMAIN calls :
        /\ SingleCall(calls[i], "sync") /\ SingleCall(calls[j], "sync")
        /\ calls[i].after.pd[PropOf(calls[i])] = HandleOf(calls[i])
        /\ calls[j].after.pd[PropOf(calls[j])] = HandleOf(calls[j])
        /\ HandleOf(calls[i]) # None /\ HandleOf(calls[j]) # None
        /\ calls[i].m[1].t = "ok" /\ calls[j].m[1].t = "err"
        /\ handles[HandleOf(calls[j])].reads = 1

\* C14: read of P is invoked only once every required property of P has
\* been resolved successfully, and with their values in the store; a
\* request one of whose required properties failed never invokes read and
\* fails (once all of them have answered).
C14_ReadAfterRequired ==
    \A h \in DOMAIN handles :
        LET P == handles[h].prop
            ms == handles[h].m
        IN /\ handles[h].reads >= 1 =>
                /\ Len(ms) = Len(Required(P))
                /\ \A n \in DOMAIN ms :
                      /\ ms[n].t = "ok"
                      /\ handles[h].stRead[Required(P)[n]] # Undef
           /\ HasError(ms) =>
                /\ handles[h].reads = 0
                /\ Settled(ms) => handles[h].phase = "failed"

\* C15: a sync(P) issued after a request for P has failed never joins the
\* failed request, which is no longer in the dictionary: it builds and
\* installs a request of its own, whose read is invoked (at once when P
\* requires nothing), unless, without clearStore, it joins a request for P
\* that was installed since and is still in flight.
FailedBefore(c) ==
    {h \in c.before.fl : handles[h].prop = PropOf(c)}
C15_SyncAfterFailureIsFresh ==
    \A i \in DOMAIN calls :
        LET c == calls[i]
            P == PropOf(c)
            g == HandleOf(c)
        IN (SingleCall(c, "sync") /\ FailedBefore(c) # {}) =>
              /\ g \notin c.before.fl
              /\ \A h \in FailedBefore(c) : c.before.pd[P] # h
              /\ \/ /\ g > c.before.nh
                    /\ handles[g].prop = P
                    /\ c.after.pd[P] = g
                    /\ Required(P) = << >> => ReadsDuring(c, P) = 1
                 \/ /\ ~c.cs
                    /\ g = c.before.pd[P]
                    /\ g # None

\* sync("name") was issued after the one request for "name" had failed, with
\* nothing for "name" in flight; it built the second request and read was
\* invoked a second time.
C15_Witness ==
    \E i \in DOMAIN calls :
        /\ SingleCall(calls[i], "sync") /\ PropOf(calls[i]) = "name"
        /\ ~calls[i].cs
        /\ 1 \in FailedBefore(calls[i])
        /\ calls[i].before.pd["name"] = None
        /\ HandleOf(calls[i]) = 2
        /\ readCount["name"] = 2

\* C16: a request for a non-proxy P resolves each required property D
\* through require: D present in the store is taken from the store, with no
\* request and no read for D; D missing is fetched (through a request).
BuiltFor(c) == c.before.nh + 1
C16_RequiredTakenFromStore ==
    \A i \in DOMAIN calls :
        LET c == calls[i]
            P == PropOf(c)
            g == BuiltFor(c)
        IN ( /\ ~c.isSet /\ ~Proxy(P) /\ ~SelfReference(P)
             /\ Built(c) >= 1 /\ handles[g].prop = P ) =>
              \A n \in DOMAIN Required(P) :
                  LET D == Required(P)[n]
                  IN IF c.before.st[D] # Undef
                     THEN /\ handles[g].m[n].t = "ok"
                          /\ handles[g].m[n].h = None
                          /\ ReadsDuring(c, D) = 0
                     ELSE handles[g].m[n].h # None

\* C17: when no synchronizer requires itself, directly or through others,
\* and every read settles, every call completes with a state or an error
\* and the dictionary empties: a state with a call waiting or an entry in
\* the dictionary leads to one with neither.
RECURSIVE Reaches(_, _, _)
Reaches(P, Q, n) ==
    \E i \in DOMAIN Required(P) :
        \/ Required(P)[i] = Q
        \/ n > 0 /\ Reaches(Required(P)[i], Q, n - 1)
Acyclic ==
    \A P \in DOMAIN synchronizers : ~Reaches(P, P, Cardinality(DOMAIN synchronizers))
Quiet ==
    /\ \A i \in DOMAIN calls : calls[i].status \in {"done", "error"}
    /\ \A P \in Props : pending[P] = None
C17_EveryCallCompletes == (Acyclic /\ ~Quiet) ~> Quiet

\* A request that waited for a required property's request has settled, its
\* caller has its state, and nothing is left in the dictionary.
C17_Witness ==
    /\ Acyclic /\ Quiet
    /\ \E i \in DOMAIN calls :
          /\ ~calls[i].isSet
          /\ calls[i].status = "done"
          /\ calls[i].after.pd[PropOf(calls[i])] = HandleOf(calls[i])
          /\ HandleOf(calls[i]) # None
          /\ Required(PropOf(calls[i])) # << >>
          /\ \E n \in DOMAIN handles[HandleOf(calls[i])].m :
                handles[HandleOf(calls[i])].m[n].h # None

\* C18: whenever a read for P has been invoked and has not settled, the
\* dictionary holds an entry for P.
C18_ReadInFlightHasEntry ==
    \A h \in DOMAIN handles :
        handles[h].phase = "reading" => pending[handles[h].prop] # None

\* C19: when sync(P, {clearStore: true}) replaced a request for P that was
\* in flight, both requests succeeded and no request for P is in flight,
\* the store's value for P is the one written by the request installed
\* last.
C19_LastInstalledWins ==
    \A i \in DOMAIN calls :
        LET c == calls[i]
            P == PropOf(c)
            h == c.before.pd[P]
            g == HandleOf(c)
        IN ( /\ SingleCall(c, "sync") /\ c.cs
             /\ h # None /\ g # None /\ g > c.before.nh
             /\ g = LastInstalled(P)
             /\ handles[h].phase = "done" /\ handles[g].phase = "done"
             /\ \A k \in RequestsFor(P) : ~Unsettled(k) )
           => store[P] = handles[g].value

\* C20: a sync(P, options) that fails with the configuration error of a
\* synchronizer requiring itself leaves the store and the dictionary as it
\* found them, with clearStore or without.
C20_ConfigErrorChangesNothing ==
    \A i \in DOMAIN calls :
        ( /\ SingleCall(calls[i], "sync")
          /\ calls[i].status = "error"
          /\ calls[i].err = ConfigError(PropOf(calls[i])) )
        => /\ calls[i].after.st = calls[i].before.st
           /\ calls[i].after.pd = calls[i].before.pd

====
